---- MODULE Spec2Model ----
(***************************************************************************)
(* Model of PyPoE's layered file system, PyPoE/poe/file/file_system.py:   *)
(* FileSystem.__init__, FileSystem.get_file and FileSystem.extract_dds     *)
(* (specification Spec); of the option store of PyPoE/cli/config.py,       *)
(* ConfigHelper (specification SpecConfig); and of the .dat exporter's     *)
(* file selection, PyPoE/cli/exporter/dat/handler.py (specification        *)
(* SpecDat).  Each specification moves its own variables and holds the     *)
(* others at their idle values.                                            *)
(*                                                                         *)
(* The archive a FileSystem is built over (which logical files the bundle  *)
(* index, the content.ggpk container and the directory under root_path     *)
(* hold, and with which bytes) is chosen in Init and never changes: the    *)
(* code only reads it.  Each get_file / extract_dds call is one action; it *)
(* records the storage steps it performed, in order, in `log`.             *)
(***************************************************************************)
EXTENDS Integers, Sequences, FiniteSets, TLC

VARIABLES
    root_path,   \* FileSystem.root_path
    ggpk,        \* FileSystem.ggpk: the GGPKFile instance held, or None
    index,       \* FileSystem.index: the Index instance held, or None
    ctorLog,     \* storage steps performed by __init__, in order
    hasGgpk,     \* archive: root_path/content.ggpk exists
    idxInGgpk,   \* archive: the index file is a record of the container
    idxOnDisk,   \* archive: the index file exists under root_path
    inIndex,     \* archive: path -> bytes served through the index, or Absent
    inGgpk,      \* archive: path -> bytes of the container record, or Absent
    onDisk,      \* archive: path -> bytes of root_path/path, or Absent
    bundleOf,    \* archive: path -> name of the bundle holding an indexed file
    loaded,      \* bundles whose backing bytes have been loaded (Bundle state)
    lastOp,      \* the last call: "none", "get_file" or "extract_dds"
    lastPath,    \* its path argument (get_file)
    lastData,    \* its data argument (extract_dds)
    result,      \* what the call returned or raised
    log          \* storage steps performed by the last call, in order

VARIABLES
    option,      \* ConfigHelper.option: key -> stored value, or Unset
    setup,       \* ConfigHelper.setup: key -> "none", "pending", "performed"
    listeners,   \* ConfigHelper._listeners: key -> listeners, in order added
    cfgOp,       \* the last ConfigHelper call
    cfgKey,      \* its key argument
    cfgVal,      \* its value argument (set_option)
    cfgSafe,     \* its safe argument (get_option)
    cfgResult,   \* what it returned or raised
    cfgCalls     \* listener calls it made, in order

VARIABLES
    specKeys,    \* dat._default_spec: its keys, in order
    argsFiles,   \* args.files: a list of names, or NoFiles
    argsLang,    \* args.language or config.get_option('language')
    avail,       \* name -> what FileSystem.get_file does for its path
    datOp,       \* the last DatExportHandler call
    datAsked,    \* args.files as it was when that call began
    datRequests, \* paths _read_dat_files passed to get_file, in order
    datFiles,    \* names _read_dat_files stored in dat_files, in order
    datResult    \* "none", "returned" or the exception raised

fsVars    == <<root_path, ggpk, index, ctorLog>>
worldVars == <<hasGgpk, idxInGgpk, idxOnDisk, inIndex, inGgpk, onDisk, bundleOf>>
cacheVars == <<loaded>>
callVars  == <<lastOp, lastPath, lastData, result, log>>
cfgVars   == <<option, setup, listeners, cfgOp, cfgKey, cfgVal, cfgSafe,
               cfgResult, cfgCalls>>
datVars   == <<specKeys, argsFiles, argsLang, avail, datOp, datAsked,
               datRequests, datFiles, datResult>>
vars      == <<fsVars, worldVars, cacheVars, callVars, cfgVars, datVars>>

---------------------------------------------------------------------------
(* Bounds of the model *)

\* Depth at which the interpreter refuses a further nested call of
\* extract_dds (CPython's recursion limit, scaled down).
MaxRecursion == 3

---------------------------------------------------------------------------
(* Bytes *)

None == "None"

\* "no such file": not a byte string (bytes are 0..255)
Absent == << -1 >>

Take(s, n) == SubSeq(s, 1, IF Len(s) < n THEN Len(s) ELSE n)   \* s[:n]
Drop(s, n) == SubSeq(s, n + 1, Len(s))                          \* s[n:]

DDS_MAGIC == <<68, 68, 83, 32>>      \* b'DDS '
REF_MARK  == <<42>>                  \* b'*'

\* File contents and extract_dds inputs used by the model.
DdsFile    == DDS_MAGIC \o <<7>>               \* a .dds file
RefA       == REF_MARK \o <<97>>               \* b'*a'
RefB       == REF_MARK \o <<98>>               \* b'*b'
CompGood   == <<2, 0, 0, 0>> \o <<2, 68, 68>>  \* header 2, payload of 2 bytes
CompBad    == <<3, 0, 0, 0>> \o <<2, 68, 68>>  \* header 3, payload of 2 bytes
CompBig    == <<0, 1, 0, 0>> \o <<1, 9>>       \* header 256, payload of 1 byte
CompJunk   == <<1, 0, 0, 0>> \o <<5, 1>>       \* payload is no valid stream
RefMissing == REF_MARK \o <<99>>               \* b'*c': a path no layer holds
RefInvalid == REF_MARK \o <<255>>              \* not UTF-8
Short      == <<68, 68>>                       \* fewer than 4 bytes
StarDds    == REF_MARK \o DDS_MAGIC            \* b'*DDS '

Paths    == {"a", "b"}
Bundles  == {"B1", "B2"}
RootPath == "/poe"

\* The bytes each layer holds for a path it holds: the layers hold different
\* bytes for one path, so that a result tells the layer it came from; Init
\* chooses which layers hold which paths.
IndexData(p) == IF p = "a" THEN RefB    ELSE RefA
GgpkData(p)  == IF p = "a" THEN RefA    ELSE CompGood
DiskData(p)  == IF p = "a" THEN DdsFile ELSE CompBad

DataInputs == {DdsFile, DDS_MAGIC, RefA, RefB, CompGood, CompBad, CompBig,
               CompJunk, RefMissing, RefInvalid, Short, StarDds, <<>>}

\* Steps of a call that the environment can make fail in that call.
\*   bundle_missing: the bundle's backing file is not found (FileNotFoundError)
\*   the others:     the step raises an error that is not FileNotFoundError
Faults == {"none", "index_lookup", "bundle_missing", "bundle_load",
           "record_get", "ggpk_extract", "disk_read"}

---------------------------------------------------------------------------
(* Results and log events *)

Ok(v)        == [ok |-> TRUE,  val |-> v,    err |-> "",  msg |-> <<>>, origin |-> ""]
Err(t, m, o) == [ok |-> FALSE, val |-> <<>>, err |-> t,   msg |-> m,    origin |-> o]

Ev(step, what) == [step |-> step, what |-> what]

Out(res, st) == [res |-> res, st |-> st]

Logged(st, ev) == [st EXCEPT !.log = Append(@, ev)]

\* file_system.py:117-119: the text of the final FileNotFoundError
NOT_FOUND_MSG == <<"Specified", "file", "can", "not", "be", "found", "in",
                   "the", "Index", "content.ggpk", "or", "disk">>

Lookup(layer, p) == IF p \in Paths THEN layer[p] ELSE Absent

---------------------------------------------------------------------------
(* FileSystem.__init__ *)

\* file_system.py:71-77: a GGPKFile is created, read and its directory built
\* exactly when root_path/content.ggpk exists.
CtorGgpk(exists) == IF exists THEN "GGPKFile" ELSE None

\* Mutant of CtorIndexFound: an index file missing from the container is
\* looked for under root_path.
CtorIndexFound_DiskFallback(g, inContainer, onDiskToo) ==
    IF g # None THEN inContainer \/ onDiskToo ELSE onDiskToo

\* file_system.py:79-86: the index is read from the container when one is
\* held and from root_path otherwise; FileNotFoundError leaves index = None.
CtorIndexFound(g, inContainer, onDiskToo) ==
    IF g # None THEN inContainer ELSE onDiskToo

CtorIndex(g, inContainer, onDiskToo) ==
    IF CtorIndexFound(g, inContainer, onDiskToo) THEN "Index" ELSE None

CtorLog(g) ==
    IF g # None
    THEN << Ev("ggpk_read", "content.ggpk"),
            Ev("directory_build", "content.ggpk"),
            Ev("ggpk_extract_index", "Bundles2/_.index.bin") >>
    ELSE << Ev("disk_read_index", "Bundles2/_.index.bin") >>

---------------------------------------------------------------------------
(* FileSystem.get_file *)

\* An exception raised by a step is an event of the log, whether get_file
\* catches it or not.
Raised(st, type, step) == Logged(st, Ev(type, step))

\* Bundle load of an indexed file's bundle: the bundle keeps the bytes it
\* was given the first time and ignores later ones.
BundleRead(b, st) ==
    IF b \in st.loaded THEN st
    ELSE [Logged(st, Ev("bundle_load", b)) EXCEPT !.loaded = @ \cup {b}]

\* file_system.py:113-119: open root_path/path; FileNotFoundError is
\* replaced by the final FileNotFoundError, any other error propagates.
GetFileDisk(p, fault, st) ==
    LET s1 == Logged(st, Ev("disk_open", p)) IN
    IF fault = "disk_read"
    THEN Out(Err("OSError", <<>>, "disk_open"), Raised(s1, "OSError", "disk_open"))
    ELSE IF Lookup(onDisk, p) = Absent
    THEN Out(Err("FileNotFoundError", NOT_FOUND_MSG, "get_file"),
             Raised(s1, "FileNotFoundError", "disk_open"))
    ELSE Out(Ok(Lookup(onDisk, p)), s1)

\* Mutant of GetFileContainer: the disk is tried before the container.
GetFileContainer_DiskFirst(p, fault, st) ==
    LET d == GetFileDisk(p, fault, st) IN
    IF ggpk = None \/ d.res.ok THEN d
    ELSE LET s1 == Logged(d.st, Ev("ggpk_lookup", p)) IN
         IF Lookup(inGgpk, p) # Absent THEN Out(Ok(Lookup(inGgpk, p)), s1)
         ELSE Out(d.res, Raised(s1, "FileNotFoundError", "ggpk_lookup"))

\* Mutant of GetFileContainer: the container step catches every exception,
\* not only FileNotFoundError.
GetFileContainer_CatchAll(p, fault, st) ==
    IF ggpk # None
    THEN LET s1 == Logged(st, Ev("ggpk_lookup", p)) IN
         IF fault = "ggpk_extract"
         THEN GetFileDisk(p, fault, Raised(s1, "OSError", "ggpk_lookup"))
         ELSE IF Lookup(inGgpk, p) # Absent
         THEN Out(Ok(Lookup(inGgpk, p)), s1)
         ELSE GetFileDisk(p, fault, Raised(s1, "FileNotFoundError", "ggpk_lookup"))
    ELSE GetFileDisk(p, fault, st)

\* file_system.py:105-109: with a container, look the path up in it and
\* extract the record; FileNotFoundError falls through to the disk.
GetFileContainer(p, fault, st) ==
    IF ggpk # None
    THEN LET s1 == Logged(st, Ev("ggpk_lookup", p)) IN
         IF fault = "ggpk_extract"
         THEN Out(Err("OSError", <<>>, "ggpk_lookup"),
                  Raised(s1, "OSError", "ggpk_lookup"))
         ELSE IF Lookup(inGgpk, p) # Absent
         THEN Out(Ok(Lookup(inGgpk, p)), s1)
         ELSE GetFileDisk(p, fault, Raised(s1, "FileNotFoundError", "ggpk_lookup"))
    ELSE GetFileDisk(p, fault, st)

\* file_system.py:102: fr.get_file(), the record's bytes out of its bundle
RecordGet(p, fault, st) ==
    LET s1 == Logged(st, Ev("record_get", p)) IN
    IF fault = "record_get"
    THEN Out(Err("OSError", <<>>, "record_get"), Raised(s1, "OSError", "record_get"))
    ELSE Out(Ok(Lookup(inIndex, p)), s1)

\* What fetching a bundle's backing bytes comes to in this call.
BundleFetch(p, fault, st) ==
    IF fault = "bundle_missing"
    THEN Out(Err("FileNotFoundError", <<>>, "bundle_read"),
             Raised(st, "FileNotFoundError", "bundle_read"))
    ELSE IF fault = "bundle_load"
    THEN Out(Err("OSError", <<>>, "bundle_read"),
             Raised(st, "OSError", "bundle_read"))
    ELSE RecordGet(p, fault, BundleRead(bundleOf[p], st))

\* file_system.py:95-98: with a container, the bundle's bytes are extracted
\* from it (the argument of fr.bundle.read is evaluated on every call) and
\* handed to the bundle.
BundleFromGgpk(p, fault, st) ==
    BundleFetch(p, fault, Logged(st, Ev("ggpk_extract_bundle", bundleOf[p])))

\* file_system.py:99-101: without a container, the bundle is given its file
\* name under root_path and reads that file if it holds no bytes yet.
BundleFromDisk(p, fault, st) ==
    IF bundleOf[p] \in st.loaded THEN RecordGet(p, fault, st)
    ELSE BundleFetch(p, fault, Logged(st, Ev("disk_read_bundle", bundleOf[p])))

\* Mutant of GetFileIndexed: the bundle load sits inside the try, so its
\* FileNotFoundError is caught and the container is tried.
GetFileIndexed_InsideTry(p, fault, st) ==
    LET r == IF ggpk # None THEN BundleFromGgpk(p, fault, st)
                            ELSE BundleFromDisk(p, fault, st) IN
    IF ~r.res.ok /\ r.res.err = "FileNotFoundError"
    THEN GetFileContainer(p, fault, r.st)
    ELSE r

\* file_system.py:94-102: the else branch of the index lookup.  An error
\* raised here is outside the try, so it is never caught by get_file.
GetFileIndexed(p, fault, st) ==
    IF ggpk # None THEN BundleFromGgpk(p, fault, st)
                   ELSE BundleFromDisk(p, fault, st)

\* file_system.py:88-119: get_file as a whole
GetFileRun(p, fault, st) ==
    IF index # None
    THEN LET s1 == Logged(st, Ev("index_lookup", p)) IN
         IF fault = "index_lookup"
         THEN Out(Err("OSError", <<>>, "index_lookup"),
                  Raised(s1, "OSError", "index_lookup"))
         ELSE IF Lookup(inIndex, p) # Absent
         THEN GetFileIndexed(p, fault, s1)
         ELSE GetFileContainer(p, fault,
                               Raised(s1, "FileNotFoundError", "index_lookup"))
    ELSE GetFileContainer(p, fault, st)

---------------------------------------------------------------------------
(* FileSystem.extract_dds *)

\* Mutant of IsDds: the slice compared with the 4-byte magic is 3 bytes long.
IsDds_ShortSlice(data) == Take(data, 3) = DDS_MAGIC

\* file_system.py:155
IsDds(data) == Take(data, 4) = DDS_MAGIC

\* file_system.py:158
IsReference(data) == Take(data, 1) = REF_MARK

\* bytes.decode(): UTF-8; the model's paths are one ASCII letter long, any
\* other ASCII text is a path no layer holds, a byte above 127 is invalid.
Decode(bytes) ==
    IF \E i \in DOMAIN bytes : bytes[i] > 127
    THEN [ok |-> FALSE, path |-> ""]
    ELSE IF bytes = <<97>> THEN [ok |-> TRUE, path |-> "a"]
    ELSE IF bytes = <<98>> THEN [ok |-> TRUE, path |-> "b"]
    ELSE [ok |-> TRUE, path |-> "other"]

\* Mutant of RefPath: the reference marker is not stripped before decoding.
RefPath_KeepsMarker(data) == Decode(data)

\* file_system.py:159
RefPath(data) == Decode(Drop(data, 1))

\* int.from_bytes(bytes, 'little')
RECURSIVE FromBytesLittle(_)
FromBytesLittle(bytes) ==
    IF bytes = <<>> THEN 0
    ELSE Head(bytes) + 256 * FromBytesLittle(Tail(bytes))

\* Mutant of SizeHeader: the header is read big-endian.
RECURSIVE FromBytesBig(_, _)
FromBytesBig(bytes, acc) ==
    IF bytes = <<>> THEN acc
    ELSE FromBytesBig(Tail(bytes), 256 * acc + Head(bytes))

SizeHeader_BigEndian(data) == FromBytesBig(Take(data, 4), 0)

\* file_system.py:163
SizeHeader(data) == FromBytesLittle(Take(data, 4))

\* brotli.decompress: the model's streams are one stored block,
\* <<n, b1, ..., bn>>; anything else is rejected (brotli.error).
BrotliDecompress(stream) ==
    IF stream # <<>> /\ Head(stream) = Len(stream) - 1
    THEN [ok |-> TRUE, bytes |-> Tail(stream)]
    ELSE [ok |-> FALSE, bytes |-> <<>>]

\* file_system.py:163-169
Decompressed(data, st) ==
    LET dec == BrotliDecompress(Drop(data, 4))
        s1  == Logged(st, Ev("decompress", "")) IN
    IF ~dec.ok THEN Out(Err("brotli.error", <<>>, "extract_dds"), s1)
    ELSE IF Len(dec.bytes) # SizeHeader(data)
    THEN Out(Err("ParserError", <<>>, "extract_dds"), s1)
    ELSE Out(Ok(dec.bytes), s1)

\* file_system.py:154-169.  depth is the number of extract_dds frames below
\* this one; the interpreter raises RecursionError instead of nesting deeper
\* than MaxRecursion.
RECURSIVE ExtractDdsRun(_, _, _, _)
ExtractDdsRun(data, depth, fault, st) ==
    IF depth > MaxRecursion
    THEN Out(Err("RecursionError", <<>>, "interpreter"), st)
    ELSE IF IsDds(data) THEN Out(Ok(data), st)
    ELSE IF IsReference(data)
    THEN LET d == RefPath(data) IN
         IF ~d.ok THEN Out(Err("UnicodeDecodeError", <<>>, "extract_dds"), st)
         ELSE LET g == GetFileRun(d.path, fault,
                                  Logged(st, Ev("get_file", d.path))) IN
              IF g.res.ok
              THEN ExtractDdsRun(g.res.val, depth + 1, fault, g.st)
              ELSE g
    ELSE Decompressed(data, st)

---------------------------------------------------------------------------
(* The state machine *)

Held(present, bytes) == IF present THEN {bytes, Absent} ELSE {Absent}

\* The keys of the 'Config' section that the option store is modelled for
Keys == {"k1", "k2"}

\* A key with no value in the 'Config' section
Unset == [t |-> "unset", n |-> 0]

\* args.files when no file list was given on the command line
NoFiles == << <<"None">> >>

\* A ConfigHelper no call has been made on: the variables of SpecConfig
\* while another specification runs
CfgIdle ==
    /\ option = [k \in Keys |-> Unset]
    /\ setup = [k \in Keys |-> "none"]
    /\ listeners = [k \in Keys |-> <<>>]
    /\ cfgOp = "none"
    /\ cfgKey = ""
    /\ cfgVal = Unset
    /\ cfgSafe = TRUE
    /\ cfgResult = [ok |-> TRUE, val |-> Unset, err |-> ""]
    /\ cfgCalls = <<>>

\* A DatExportHandler no call has been made on: the variables of SpecDat
\* while another specification runs
DatIdle ==
    /\ specKeys = <<>>
    /\ argsFiles = NoFiles
    /\ argsLang = "English"
    /\ avail = <<>>
    /\ datOp = "none"
    /\ datAsked = NoFiles
    /\ datRequests = <<>>
    /\ datFiles = <<>>
    /\ datResult = "none"

Init ==
    /\ root_path = RootPath
    /\ hasGgpk \in BOOLEAN
    /\ idxInGgpk \in (IF hasGgpk THEN BOOLEAN ELSE {FALSE})
    /\ idxOnDisk \in BOOLEAN
    /\ ggpk = CtorGgpk(hasGgpk)
    /\ index = CtorIndex(ggpk, idxInGgpk, idxOnDisk)
    /\ ctorLog = CtorLog(ggpk)
    /\ \E ia \in Held(index # None, IndexData("a")),
          ib \in Held(index # None, IndexData("b")) :
            inIndex = [p \in Paths |-> IF p = "a" THEN ia ELSE ib]
    /\ \E ga \in Held(hasGgpk, GgpkData("a")),
          gb \in Held(hasGgpk, GgpkData("b")) :
            inGgpk = [p \in Paths |-> IF p = "a" THEN ga ELSE gb]
    /\ \E da \in Held(TRUE, DiskData("a")),
          db \in Held(TRUE, DiskData("b")) :
            onDisk = [p \in Paths |-> IF p = "a" THEN da ELSE db]
    /\ bundleOf \in [Paths -> Bundles]
    /\ bundleOf["a"] = "B1"
    /\ (index = None => bundleOf["b"] = "B1")
    /\ loaded = {}
    /\ lastOp = "none"
    /\ lastPath = ""
    /\ lastData = <<>>
    /\ result = Ok(<<>>)
    /\ log = <<>>
    /\ CfgIdle
    /\ DatIdle

Cache == [loaded |-> loaded, log |-> <<>>]

Finish(out) ==
    /\ result' = out.res
    /\ log' = out.st.log
    /\ loaded' = out.st.loaded

\* Mutant of GetFile: a path the index does not know makes the instance
\* drop its index, as __init__ does when the index file is not found.
GetFile_DropsIndex(p, fault) ==
    LET out == GetFileRun(p, fault, Cache) IN
    /\ lastOp' = "get_file"
    /\ lastPath' = p
    /\ lastData' = <<>>
    /\ Finish(out)
    /\ index' = IF \E i \in DOMAIN out.st.log :
                      out.st.log[i] = Ev("FileNotFoundError", "index_lookup")
                 THEN None ELSE index
    /\ UNCHANGED <<root_path, ggpk, ctorLog, worldVars, cfgVars, datVars>>

\* FileSystem.get_file(path)
GetFile(p, fault) ==
    /\ lastOp' = "get_file"
    /\ lastPath' = p
    /\ lastData' = <<>>
    /\ Finish(GetFileRun(p, fault, Cache))
    /\ UNCHANGED <<fsVars, worldVars, cfgVars, datVars>>

\* FileSystem.extract_dds(data)
ExtractDds(data, fault) ==
    /\ lastOp' = "extract_dds"
    /\ lastPath' = ""
    /\ lastData' = data
    /\ Finish(ExtractDdsRun(data, 0, fault, Cache))
    /\ UNCHANGED <<fsVars, worldVars, cfgVars, datVars>>

Next ==
    \/ \E p \in Paths, fault \in Faults : GetFile(p, fault)
    \/ \E data \in DataInputs, fault \in Faults : ExtractDds(data, fault)

Spec == Init /\ [][Next]_vars

---------------------------------------------------------------------------
(* Reading the log *)

Has(l, step) == \E i \in DOMAIN l : l[i].step = step
HasEv(l, ev) == \E i \in DOMAIN l : l[i] = ev

\* The three layer steps of get_file, in the order of the resolution
LayerSteps == {"index_lookup", "ggpk_lookup", "disk_open"}
LayerRank(step) ==
    CASE step = "index_lookup" -> 1 [] step = "ggpk_lookup" -> 2 [] OTHER -> 3

IndexNotFound == HasEv(log, Ev("FileNotFoundError", "index_lookup"))
GgpkNotFound  == HasEv(log, Ev("FileNotFoundError", "ggpk_lookup"))

\* The bytes of the first layer, in resolution order, that holds the path
FirstHolder(p) ==
    IF index # None /\ Lookup(inIndex, p) # Absent THEN Lookup(inIndex, p)
    ELSE IF ggpk # None /\ Lookup(inGgpk, p) # Absent THEN Lookup(inGgpk, p)
    ELSE Lookup(onDisk, p)

AfterGetFile == lastOp = "get_file"

---------------------------------------------------------------------------
(* Claims about get_file *)

\* C1: get_file consults the layers in the order index, container, disk;
\* the container is looked up only if there is no index or the index lookup
\* reported not-found, the disk is opened only if there is no container or
\* the container lookup reported not-found; the first layer that holds the
\* path supplies the result, so a path not indexed but held by container and
\* disk is returned from the container.
C1_LayerOrder ==
    AfterGetFile =>
        /\ \A i, j \in DOMAIN log :
              (i < j /\ log[i].step \in LayerSteps /\ log[j].step \in LayerSteps)
                  => LayerRank(log[i].step) < LayerRank(log[j].step)
        /\ Has(log, "index_lookup") <=> index # None
        /\ IndexNotFound => Lookup(inIndex, lastPath) = Absent
        /\ GgpkNotFound => Lookup(inGgpk, lastPath) = Absent
        /\ Has(log, "ggpk_lookup") <=>
              (ggpk # None /\ (index = None \/ IndexNotFound))
        /\ Has(log, "disk_open") <=>
              ((index = None \/ IndexNotFound) /\ (ggpk = None \/ GgpkNotFound))
        /\ result.ok => result.val = FirstHolder(lastPath)
        /\ ( /\ result.ok
             /\ Lookup(inIndex, lastPath) = Absent
             /\ Lookup(inGgpk, lastPath) # Absent )
              => (result.val = inGgpk[lastPath] /\ ~Has(log, "disk_open"))

C1_Witness ==
    /\ AfterGetFile
    /\ index # None
    /\ inIndex[lastPath] = Absent
    /\ inGgpk[lastPath] # Absent
    /\ onDisk[lastPath] # Absent
    /\ result = Ok(inGgpk[lastPath])
    /\ log = << Ev("index_lookup", lastPath),
                Ev("FileNotFoundError", "index_lookup"),
                Ev("ggpk_lookup", lastPath) >>

\* C2: whenever the index lookup of the path succeeds, get_file returns the
\* bytes of the index record or raises, and neither looks the path up in the
\* container nor opens root_path/path; in particular so for a FileSystem
\* with an index and no container.
IndexLookupSucceeded ==
    /\ Has(log, "index_lookup")
    /\ ~HasEv(log, Ev("FileNotFoundError", "index_lookup"))
    /\ ~HasEv(log, Ev("OSError", "index_lookup"))

C2_IndexOnly ==
    AfterGetFile =>
        /\ (index # None /\ inIndex[lastPath] # Absent
              /\ ~HasEv(log, Ev("OSError", "index_lookup")))
             => IndexLookupSucceeded
        /\ IndexLookupSucceeded =>
             /\ ~Has(log, "ggpk_lookup")
             /\ ~Has(log, "disk_open")
             /\ result.ok => result.val = inIndex[lastPath]

C2_Witness ==
    /\ AfterGetFile
    /\ ggpk = None
    /\ index # None
    /\ onDisk[lastPath] # Absent
    /\ result = Ok(inIndex[lastPath])
    /\ log = << Ev("index_lookup", lastPath),
                Ev("disk_read_bundle", bundleOf[lastPath]),
                Ev("bundle_load", bundleOf[lastPath]),
                Ev("record_get", lastPath) >>

\* C3 (as claimed): when the path is absent from the index, from the container
\* and from disk, get_file raises FileNotFoundError and the message names
\* the requested path and the layers that were attempted.
AbsentEverywhere(p) ==
    /\ Lookup(inIndex, p) = Absent
    /\ Lookup(inGgpk, p) = Absent
    /\ Lookup(onDisk, p) = Absent

Names(msg, word) == \E i \in DOMAIN msg : msg[i] = word

LayerName(step) ==
    CASE step = "index_lookup" -> "Index"
      [] step = "ggpk_lookup" -> "content.ggpk"
      [] OTHER -> "disk"

C3_NotFoundNamesPathAndLayers ==
    (AfterGetFile /\ AbsentEverywhere(lastPath) /\ ~Has(log, "OSError")) =>
        /\ result.err = "FileNotFoundError"
        /\ Names(result.msg, lastPath)
        /\ \A step \in LayerSteps :
              Names(result.msg, LayerName(step)) <=> Has(log, step)

\* C4 (as claimed): a FileNotFoundError raised by a layer is caught and the
\* next layer is tried (after the last layer, get_file raises its own
\* not-found error); any other error propagates unchanged and ends the call.
HardErrorsPropagate ==
    \A i \in DOMAIN log :
        log[i].step = "OSError" =>
            (i = Len(log) /\ result = Err("OSError", <<>>, log[i].what))

C4_EveryNotFoundFallsBack ==
    AfterGetFile =>
        /\ HardErrorsPropagate
        /\ \A i \in DOMAIN log :
              log[i].step = "FileNotFoundError" =>
                  \/ (i < Len(log) /\ log[i + 1].step \in LayerSteps)
                  \/ (log[i].what = "disk_open" /\ result.origin = "get_file")

\* C4 (amended): a FileNotFoundError raised by the index lookup or by the
\* container lookup of the path is caught and the next layer is tried, the
\* one raised by opening root_path/path becomes get_file's own not-found
\* error, and the one raised while fetching the bundle of an indexed file
\* propagates to the caller; any other error propagates unchanged and ends
\* the call.
C4_Propagation ==
    AfterGetFile =>
        /\ HardErrorsPropagate
        /\ \A i \in DOMAIN log :
              /\ log[i] = Ev("FileNotFoundError", "index_lookup") =>
                    /\ i < Len(log)
                    /\ log[i + 1].step =
                          (IF ggpk # None THEN "ggpk_lookup" ELSE "disk_open")
              /\ log[i] = Ev("FileNotFoundError", "ggpk_lookup") =>
                    (i < Len(log) /\ log[i + 1].step = "disk_open")
              /\ log[i] = Ev("FileNotFoundError", "disk_open") =>
                    /\ i = Len(log)
                    /\ result = Err("FileNotFoundError", NOT_FOUND_MSG, "get_file")
              /\ log[i] = Ev("FileNotFoundError", "bundle_read") =>
                    /\ i = Len(log)
                    /\ result = Err("FileNotFoundError", <<>>, "bundle_read")

C4_Witness ==
    /\ AfterGetFile
    /\ index # None
    /\ ggpk # None
    /\ onDisk[lastPath] # Absent
    /\ log = << Ev("index_lookup", lastPath),
                Ev("FileNotFoundError", "index_lookup"),
                Ev("ggpk_lookup", lastPath),
                Ev("OSError", "ggpk_lookup") >>
    /\ result = Err("OSError", <<>>, "ggpk_lookup")

---------------------------------------------------------------------------
(* Claims about the bundle cache *)

BundleReadSteps == {"ggpk_extract_bundle", "disk_read_bundle"}

\* How many times the call read the backing bytes of bundle b
ReadsOf(l, b) ==
    Cardinality({i \in DOMAIN l : l[i].step \in BundleReadSteps /\ l[i].what = b})

\* C5 (as claimed): over any sequence of get_file calls the backing bytes of
\* a bundle are read, from the container or from disk, at most once: not by
\* the constructor, at most once by the first get_file that needs the
\* bundle, and never by a get_file made when the bundle is already loaded.
C5_ReadAtMostOnce ==
    /\ \A b \in Bundles : ReadsOf(ctorLog, b) = 0
    /\ [][(lastOp # "extract_dds" /\ lastOp' = "get_file") =>
            \A b \in Bundles :
                ReadsOf(log', b) <= (IF b \in loaded THEN 0 ELSE 1)]_vars

---------------------------------------------------------------------------
(* Claims about extract_dds *)

AfterExtractDds == lastOp = "extract_dds"

\* Number of references the call followed
Redirects(l) == Cardinality({i \in DOMAIN l : l[i].step = "get_file"})

\* C6 (as claimed): extract_dds follows references only up to a redirect
\* limit and fails with ReferenceLoopError on a longer chain or a cycle; it
\* never recurses until the interpreter stops it.
C6_ReferenceLoopError ==
    AfterExtractDds =>
        /\ result.err # "RecursionError"
        /\ Redirects(log) > MaxRecursion => result.err = "ReferenceLoopError"

\* The path a reference of the model names
PathOfRef(data) ==
    CASE data = RefA -> "a" [] data = RefB -> "b" [] OTHER -> "other"

\* An exception that get_file does not catch ends the call
Propagated(l) ==
    {i \in DOMAIN l :
        \/ l[i].step = "OSError"
        \/ l[i] = Ev("FileNotFoundError", "bundle_read")
        \/ l[i] = Ev("FileNotFoundError", "disk_open")}

\* C7: extract_dds of data starting with '*' decodes the rest as a path,
\* gets that path's bytes with get_file (index, then container, then disk)
\* and returns what extract_dds returns for those bytes; an error of
\* get_file propagates.
C7_Reference ==
    (AfterExtractDds /\ Take(lastData, 1) = REF_MARK) =>
        IF lastData = RefInvalid
        THEN result.err = "UnicodeDecodeError" /\ log = <<>>
        ELSE LET path == PathOfRef(lastData)
                 first == IF index # None THEN "index_lookup"
                          ELSE IF ggpk # None THEN "ggpk_lookup"
                          ELSE "disk_open" IN
             /\ Len(log) >= 2
             /\ log[1] = Ev("get_file", path)
             /\ log[2] = Ev(first, path)
             /\ Propagated(log) # {} =>
                   /\ Propagated(log) = {Len(log)}
                   /\ ~result.ok
                   /\ result.err = log[Len(log)].step
             /\ Propagated(log) = {} =>
                   /\ FirstHolder(path) # Absent
                   /\ result =
                        ExtractDdsRun(FirstHolder(path), 1, "none",
                                      [loaded |-> loaded, log |-> <<>>]).res

C7_Witness ==
    /\ AfterExtractDds
    /\ lastData = RefB
    /\ index = None
    /\ onDisk["b"] # Absent
    /\ log = << Ev("get_file", "b"), Ev("ggpk_lookup", "b"), Ev("decompress", "") >>
    /\ result = Ok(<<68, 68>>)

\* C8: extract_dds of data starting neither with the DDS magic nor with '*'
\* reads the first 4 bytes as a little-endian size and decompresses the
\* rest; it returns the decompressed bytes only if their length is that
\* size and raises ParserError otherwise.
LittleEndian4(data) ==
    (IF Len(data) >= 1 THEN data[1] ELSE 0)
  + (IF Len(data) >= 2 THEN data[2] * 256 ELSE 0)
  + (IF Len(data) >= 3 THEN data[3] * 65536 ELSE 0)
  + (IF Len(data) >= 4 THEN data[4] * 16777216 ELSE 0)

C8_Compressed ==
    (AfterExtractDds /\ Take(lastData, 4) # DDS_MAGIC /\ Take(lastData, 1) # REF_MARK) =>
        LET dec == BrotliDecompress(Drop(lastData, 4)) IN
        /\ log = << Ev("decompress", "") >>
        /\ (dec.ok /\ Len(dec.bytes) = LittleEndian4(lastData))
              => result = Ok(dec.bytes)
        /\ (dec.ok /\ Len(dec.bytes) # LittleEndian4(lastData))
              => (~result.ok /\ result.err = "ParserError" /\ result.val = <<>>)
        /\ ~dec.ok => (~result.ok /\ result.err = "brotli.error")
        /\ result.ok => Len(result.val) = LittleEndian4(lastData)

C8_Witness ==
    /\ AfterExtractDds
    /\ lastData = CompBad
    /\ result = Err("ParserError", <<>>, "extract_dds")

\* C9: extract_dds of data starting with the 4 bytes 'DDS ' returns the data
\* itself, with no get_file call and no decompression.
C9_DdsAsIs ==
    (AfterExtractDds /\ Take(lastData, 4) = DDS_MAGIC) =>
        (result = Ok(lastData) /\ log = <<>>)

C9_Witness ==
    /\ AfterExtractDds
    /\ lastData = DdsFile
    /\ result = Ok(DdsFile)
    /\ log = <<>>

---------------------------------------------------------------------------
(* Claims about the FileSystem object *)

\* C10: no get_file or extract_dds call, successful or not, changes
\* root_path, the container held or the index held; the instance holds at
\* most one container and at most one index.
C10_FieldsImmutable ==
    /\ [](ggpk \in {None, "GGPKFile"} /\ index \in {None, "Index"})
    /\ [][root_path' = root_path /\ ggpk' = ggpk /\ index' = index]_vars

C10_Witness ==
    /\ lastOp = "get_file"
    /\ ~result.ok
    /\ root_path = RootPath
    /\ ggpk = "GGPKFile"
    /\ index = "Index"
    /\ HasEv(log, Ev("FileNotFoundError", "index_lookup"))
    /\ loaded # {}

\* C11: the bytes of the index and of the bundles come from the container
\* whenever one is held and from root_path only when none is held: with a
\* container neither __init__ nor a call reads the index file or a bundle
\* file from disk, and the container is read and its directory built before
\* the index is looked up in it.  The index is None exactly when reading it
\* reported not-found.
C11_BackingSource ==
    /\ ggpk # None <=> hasGgpk
    /\ ggpk # None =>
          /\ ~Has(ctorLog, "disk_read_index")
          /\ ~Has(log, "disk_read_bundle")
          /\ ctorLog = << Ev("ggpk_read", "content.ggpk"),
                          Ev("directory_build", "content.ggpk"),
                          Ev("ggpk_extract_index", "Bundles2/_.index.bin") >>
    /\ ggpk = None =>
          /\ ctorLog = << Ev("disk_read_index", "Bundles2/_.index.bin") >>
          /\ ~Has(log, "ggpk_extract_bundle")
          /\ ~Has(log, "ggpk_lookup")
    /\ index = None <=>
          \/ (ggpk # None /\ ~idxInGgpk)
          \/ (ggpk = None /\ ~idxOnDisk)
    /\ (lastOp = "get_file" /\ result.ok /\ index # None
          /\ inIndex[lastPath] # Absent) =>
          \/ Has(log, IF ggpk # None THEN "ggpk_extract_bundle"
                                     ELSE "disk_read_bundle")
          \/ bundleOf[lastPath] \in loaded

C11_Witness ==
    /\ ggpk # None
    /\ idxInGgpk
    /\ idxOnDisk
    /\ lastOp = "get_file"
    /\ result = Ok(inIndex[lastPath])
    /\ log = << Ev("index_lookup", lastPath),
                Ev("ggpk_extract_bundle", bundleOf[lastPath]),
                Ev("bundle_load", bundleOf[lastPath]),
                Ev("record_get", lastPath) >>

---------------------------------------------------------------------------
(* ConfigHelper, PyPoE/cli/config.py: the option store, the setup flags   *)
(* and the listeners of one instance.  A call is one action.              *)

\* Values.  A string carries the integer it spells, or -1 if it spells none
IntVal(n)  == [t |-> "int", n |-> n]
StrVal(n)  == [t |-> "str", n |-> n]
BoolVal(b) == [t |-> "bool", n |-> IF b THEN 1 ELSE 0]
NoneVal == [t |-> "none", n |-> 0]

\* What a call returned, or the exception it raised
CfgOk(v)  == [ok |-> TRUE, val |-> v, err |-> ""]
CfgErr(e) == [ok |-> FALSE, val |-> Unset, err |-> e]

\* optionspec[key] of every modelled key: 'integer(min=0, max=OptionMax)'
OptionMax == 1

\* validator.check(optionspec[key], value): a string that spells an integer
\* is converted to it, the range is checked, anything else is rejected
Check(v) ==
    IF v.t \notin {"int", "str"} THEN CfgErr("ValidationError")
    ELSE IF v.n < 0 \/ v.n > OptionMax THEN CfgErr("ValidationError")
    ELSE CfgOk(IntVal(v.n))

\* Values a caller passes to set_option: two that validate (one of them
\* converted on the way), two that do not
ValueInputs == {IntVal(0), StrVal(1), IntVal(OptionMax + 1), StrVal(-1)}

\* Values the 'Config' section of the file holds when the instance is built
FileValues == {Unset, IntVal(0), StrVal(1)}

\* Listener functions: "ok" returns, "bad" raises; "nc" is not callable
Callables == {"ok", "bad"}
FunctionInputs == Callables \cup {"nc"}

\* The most listeners the model adds to one ConfigHelper
MaxListeners == 3

\* One listener call f(key, value, old_value)
Call(f, k, v, old) == [f |-> f, key |-> k, value |-> v, old |-> old]

\* The ConfigHelper as the run operators see it
Config == [option |-> option, setup |-> setup, listeners |-> listeners]

\* What a call leaves behind
CfgOut(res, opt, stp, calls) ==
    [res |-> res, option |-> opt, setup |-> stp, calls |-> calls]

\* set_option, lines 251-252
Invalidate(stp, k) ==
    IF stp[k] # "none" THEN [stp EXCEPT ![k] = "pending"] ELSE stp

\* Mutant of ListenersFor: the listeners of every key are called
ListenersFor_EveryKey(ls, k) == ls["k1"] \o ls["k2"]

\* set_option, lines 257-258: self._listeners[key] if key has any
ListenersFor(ls, k) == ls[k]

\* set_option, lines 258-259: the loop over the listeners; self.option[key]
\* is read for each call and raises KeyError when key has no value
RECURSIVE RunListeners(_, _, _, _, _)
RunListeners(fs, i, k, v, opt) ==
    IF i > Len(fs) THEN [calls |-> <<>>, err |-> ""]
    ELSE IF opt[k] = Unset THEN [calls |-> <<>>, err |-> "KeyError"]
    ELSE LET c == Call(fs[i], k, v, opt[k]) IN
         IF fs[i] = "bad" THEN [calls |-> <<c>>, err |-> "ListenerError"]
         ELSE LET rest == RunListeners(fs, i + 1, k, v, opt) IN
              [calls |-> <<c>> \o rest.calls, err |-> rest.err]

\* Mutant of SetOptionRun: the value is validated before the setup is
\* invalidated, so a rejected value leaves the setup performed
SetOptionRun_ValidatesFirst(k, v, st) ==
    LET chk == Check(v)
        run == RunListeners(ListenersFor(st.listeners, k), 1, k, chk.val,
                            st.option)
    IN  IF ~chk.ok THEN CfgOut(chk, st.option, st.setup, <<>>)
        ELSE IF run.err # ""
        THEN CfgOut(CfgErr(run.err), st.option, Invalidate(st.setup, k),
                    run.calls)
        ELSE CfgOut(CfgOk(NoneVal), [st.option EXCEPT ![k] = chk.val],
                    Invalidate(st.setup, k), run.calls)

\* Mutant of SetOptionRun: the value is stored before the listeners run
SetOptionRun_StoresFirst(k, v, st) ==
    LET chk == Check(v)
        stored == [st.option EXCEPT ![k] = chk.val]
        run == RunListeners(ListenersFor(st.listeners, k), 1, k, chk.val,
                            stored)
    IN  IF ~chk.ok
        THEN CfgOut(chk, st.option, Invalidate(st.setup, k), <<>>)
        ELSE CfgOut(IF run.err # "" THEN CfgErr(run.err) ELSE CfgOk(NoneVal),
                    stored, Invalidate(st.setup, k), run.calls)

\* ConfigHelper.set_option(key, value), lines 251-261
SetOptionRun(k, v, st) ==
    LET stp == Invalidate(st.setup, k)
        chk == Check(v)
        run == RunListeners(ListenersFor(st.listeners, k), 1, k, chk.val,
                            st.option)
    IN  IF ~chk.ok THEN CfgOut(chk, st.option, stp, <<>>)
        ELSE IF run.err # ""
        THEN CfgOut(CfgErr(run.err), st.option, stp, run.calls)
        ELSE CfgOut(CfgOk(NoneVal), [st.option EXCEPT ![k] = chk.val], stp,
                    run.calls)

\* Mutant of GetOptionRun: the setup is checked whatever safe is
GetOptionRun_AlwaysSafe(k, safe, st) ==
    IF st.setup[k] = "pending" THEN CfgErr("SetupError")
    ELSE IF st.option[k] = Unset THEN CfgErr("SystemExit")
    ELSE Check(st.option[k])

\* ConfigHelper.get_option(key, safe), lines 216-229
GetOptionRun(k, safe, st) ==
    IF safe /\ st.setup[k] = "pending" THEN CfgErr("SetupError")
    ELSE IF st.option[k] = Unset THEN CfgErr("SystemExit")
    ELSE Check(st.option[k])

\* ConfigHelper.is_setup(variable), line 453
IsSetupRun(k, st) ==
    IF st.setup[k] = "none" THEN CfgErr("KeyError")
    ELSE CfgOk(BoolVal(st.setup[k] = "performed"))

\* ConfigHelper.setup_or_raise(variable), lines 474-477
SetupOrRaiseRun(k, st) ==
    LET is == IsSetupRun(k, st) IN
    IF ~is.ok THEN is
    ELSE IF is.val = BoolVal(FALSE) THEN CfgErr("SetupError")
    ELSE CfgOk(BoolVal(TRUE))

\* The record of the call just made
Called(op, k, v, safe, res, calls) ==
    /\ cfgOp' = op
    /\ cfgKey' = k
    /\ cfgVal' = v
    /\ cfgSafe' = safe
    /\ cfgResult' = res
    /\ cfgCalls' = calls

SetOption(k, v) ==
    LET out == SetOptionRun(k, v, Config) IN
    /\ option' = out.option
    /\ setup' = out.setup
    /\ Called("set_option", k, v, TRUE, out.res, out.calls)
    /\ UNCHANGED <<listeners, fsVars, worldVars, cacheVars, callVars, datVars>>

GetOption(k, safe) ==
    /\ Called("get_option", k, Unset, safe, GetOptionRun(k, safe, Config), <<>>)
    /\ UNCHANGED <<option, setup, listeners>>
    /\ UNCHANGED <<fsVars, worldVars, cacheVars, callVars, datVars>>

IsSetup(k) ==
    /\ Called("is_setup", k, Unset, TRUE, IsSetupRun(k, Config), <<>>)
    /\ UNCHANGED <<option, setup, listeners>>
    /\ UNCHANGED <<fsVars, worldVars, cacheVars, callVars, datVars>>

SetupOrRaise(k) ==
    /\ Called("setup_or_raise", k, Unset, TRUE, SetupOrRaiseRun(k, Config), <<>>)
    /\ UNCHANGED <<option, setup, listeners>>
    /\ UNCHANGED <<fsVars, worldVars, cacheVars, callVars, datVars>>

\* ConfigHelper.register_setup(key, funcs) with callable funcs, lines 288-310
RegisterSetup(k) ==
    /\ setup' = IF setup[k] = "none" THEN [setup EXCEPT ![k] = "pending"]
                ELSE setup
    /\ Called("register_setup", k, Unset, TRUE, CfgOk(NoneVal), <<>>)
    /\ UNCHANGED <<option, listeners>>
    /\ UNCHANGED <<fsVars, worldVars, cacheVars, callVars, datVars>>

\* The setup of key is run and its 'performed' flag set to True
PerformSetup(k) ==
    /\ setup[k] # "none"
    /\ setup' = [setup EXCEPT ![k] = "performed"]
    /\ Called("perform_setup", k, Unset, TRUE, CfgOk(NoneVal), <<>>)
    /\ UNCHANGED <<option, listeners>>
    /\ UNCHANGED <<fsVars, worldVars, cacheVars, callVars, datVars>>

\* ConfigHelper.add_setup_listener(config_key, function), lines 338-344
AddSetupListener(k, f) ==
    /\ Len(listeners["k1"]) + Len(listeners["k2"]) < MaxListeners
    /\ listeners' = IF f \in Callables
                    THEN [listeners EXCEPT ![k] = Append(@, f)]
                    ELSE listeners
    /\ Called("add_setup_listener", k, Unset, TRUE,
              IF f \in Callables THEN CfgOk(NoneVal) ELSE CfgErr("TypeError"),
              <<>>)
    /\ UNCHANGED <<option, setup>>
    /\ UNCHANGED <<fsVars, worldVars, cacheVars, callVars, datVars>>

\* A FileSystem built over an empty directory that no call is made on: the
\* variables of Spec while another specification runs
FsIdle ==
    /\ root_path = RootPath
    /\ hasGgpk = FALSE
    /\ idxInGgpk = FALSE
    /\ idxOnDisk = FALSE
    /\ ggpk = CtorGgpk(hasGgpk)
    /\ index = CtorIndex(ggpk, idxInGgpk, idxOnDisk)
    /\ ctorLog = CtorLog(ggpk)
    /\ inIndex = [p \in Paths |-> Absent]
    /\ inGgpk = [p \in Paths |-> Absent]
    /\ onDisk = [p \in Paths |-> Absent]
    /\ bundleOf = [p \in Paths |-> "B1"]
    /\ loaded = {}
    /\ lastOp = "none"
    /\ lastPath = ""
    /\ lastData = <<>>
    /\ result = Ok(<<>>)
    /\ log = <<>>

\* ConfigHelper.__init__, lines 104-119: the 'Config' and 'Setup' sections
\* are what the file holds, and no listener is registered
CfgInit ==
    /\ option \in [Keys -> FileValues]
    /\ setup \in [Keys -> {"none", "pending", "performed"}]
    /\ listeners = [k \in Keys |-> <<>>]
    /\ cfgOp = "none"
    /\ cfgKey = ""
    /\ cfgVal = Unset
    /\ cfgSafe = TRUE
    /\ cfgResult = CfgOk(Unset)
    /\ cfgCalls = <<>>
    /\ FsIdle
    /\ DatIdle

CfgNext ==
    \/ \E k \in Keys, v \in ValueInputs : SetOption(k, v)
    \/ \E k \in Keys, safe \in BOOLEAN : GetOption(k, safe)
    \/ \E k \in Keys : IsSetup(k)
    \/ \E k \in Keys : SetupOrRaise(k)
    \/ \E k \in Keys : RegisterSetup(k)
    \/ \E k \in Keys : PerformSetup(k)
    \/ \E k \in Keys, f \in FunctionInputs : AddSetupListener(k, f)

SpecConfig == CfgInit /\ [][CfgNext]_vars

---------------------------------------------------------------------------
(* Claims about ConfigHelper *)

OtherKey(k) == IF k = "k1" THEN "k2" ELSE "k1"

\* The step is a call of op on key k
CallOf(op, k) == cfgOp' = op /\ cfgKey' = k

\* C12: set_option(key, value) on a key that has a setup registered leaves
\* that setup not performed, whatever the call's outcome, and leaves the
\* setups of the other keys as they were; a setup that is not performed
\* stays so until 'performed' is set to True again; and while it is not
\* performed is_setup(key) is False, setup_or_raise(key) raises SetupError
\* and get_option(key, safe=True) raises SetupError.
C12_SetupInvalidated ==
    /\ [][\A k \in Keys : CallOf("set_option", k) =>
            /\ setup[k] # "none" => setup'[k] = "pending"
            /\ setup'[OtherKey(k)] = setup[OtherKey(k)]]_vars
    /\ [][\A k \in Keys : (setup[k] = "pending" /\ setup'[k] # "pending") =>
            (CallOf("perform_setup", k) /\ setup'[k] = "performed")]_vars
    /\ [](\A k \in Keys : setup[k] = "pending" =>
            /\ IsSetupRun(k, Config) = CfgOk(BoolVal(FALSE))
            /\ SetupOrRaiseRun(k, Config) = CfgErr("SetupError")
            /\ GetOptionRun(k, TRUE, Config) = CfgErr("SetupError"))
    /\ []((cfgOp = "is_setup" /\ setup[cfgKey] = "pending") =>
            cfgResult = CfgOk(BoolVal(FALSE)))
    /\ []((cfgOp = "setup_or_raise" /\ setup[cfgKey] = "pending") =>
            cfgResult = CfgErr("SetupError"))

\* A value was set for k1 while the setups of both keys were registered:
\* the setup of k1 is not performed, that of k2 still is
C12_Witness ==
    /\ cfgOp = "set_option" /\ cfgKey = "k1" /\ cfgResult.ok
    /\ setup["k1"] = "pending"
    /\ setup["k2"] = "performed"

\* C13: get_option(key, safe=True) raises SetupError exactly when a setup
\* is registered for key and is not performed, and then returns nothing;
\* get_option(key, safe=False) never raises SetupError and returns the
\* stored value as the validator converts it, whatever the setup state;
\* get_option changes neither the option values nor the setup flags.
C13_GetOption ==
    /\ [](cfgOp = "get_option" =>
            /\ cfgSafe => (cfgResult.err = "SetupError"
                             <=> setup[cfgKey] = "pending")
            /\ cfgResult.err = "SetupError" =>
                  (~cfgResult.ok /\ cfgResult.val = Unset)
            /\ ~cfgSafe => cfgResult.err # "SetupError"
            /\ (cfgResult.err # "SetupError" /\ option[cfgKey] # Unset) =>
                  /\ cfgResult.ok
                  /\ cfgResult.val.t = "int"
                  /\ cfgResult.val.n = option[cfgKey].n
            /\ (cfgResult.err # "SetupError" /\ option[cfgKey] = Unset) =>
                  cfgResult.err = "SystemExit")
    /\ [][cfgOp' = "get_option" => UNCHANGED <<option, setup, listeners>>]_vars

\* get_option(key, safe=False) returned the integer that the stored string
\* spells although the setup of key is not performed
C13_Witness ==
    /\ cfgOp = "get_option" /\ ~cfgSafe
    /\ setup[cfgKey] = "pending"
    /\ option[cfgKey] = StrVal(1)
    /\ cfgResult = CfgOk(IntVal(1))

\* Every listener of fs called once, in order, with (k, v, old)
ExpectedCalls(fs, k, v, old) == [i \in 1..Len(fs) |-> Call(fs[i], k, v, old)]

\* The step is a set_option call on k whose value passes validation
ValidSetOption(k) == CallOf("set_option", k) /\ Check(cfgVal').ok

\* C14 as stated: a set_option(key, value) call that passes validation
\* calls every listener added for key exactly once, in the order added,
\* each with (key, the new validated value, the value stored before the
\* call), and calls no listener of another key.
C14_EveryListenerOnce ==
    [][\A k \in Keys : ValidSetOption(k) =>
          cfgCalls' = ExpectedCalls(listeners[k], k, Check(cfgVal').val,
                                    option[k])]_vars

\* C14: a set_option(key, value) call that passes validation calls the
\* listeners added for key in the order added, each at most once and each
\* with (key, the new validated value, the value stored before the call),
\* up to and including the first one that raises; with a listener added
\* and no value stored for key it raises KeyError and calls none.  A call
\* that returns has called every listener of key exactly once and then
\* stored the value.  No listener of another key is called.
C14_ListenersUntilFailure ==
    [][\A k \in Keys : ValidSetOption(k) =>
          LET all == ExpectedCalls(listeners[k], k, Check(cfgVal').val,
                                   option[k])
              n == Len(cfgCalls')
          IN  /\ n <= Len(all)
              /\ cfgCalls' = SubSeq(all, 1, n)
              /\ \A i \in 1..(n - 1) : cfgCalls'[i].f # "bad"
              /\ cfgResult'.ok =>
                    /\ n = Len(all)
                    /\ option' = [option EXCEPT ![k] = Check(cfgVal').val]
              /\ n < Len(all) =>
                    /\ ~cfgResult'.ok
                    /\ IF option[k] = Unset
                       THEN n = 0 /\ cfgResult'.err = "KeyError"
                       ELSE /\ n > 0
                            /\ cfgCalls'[n].f = "bad"
                            /\ cfgResult'.err = "ListenerError"]_vars

\* A call returned after calling the two listeners of its key with the old
\* value, while the other key has a listener too
C14_Witness ==
    /\ cfgOp = "set_option" /\ cfgResult.ok
    /\ Len(cfgCalls) = 2
    /\ cfgCalls[1].old # cfgCalls[1].value
    /\ cfgCalls[2].old # option[cfgKey]
    /\ listeners[OtherKey(cfgKey)] # <<>>

\* C15: a set_option(key, value) call that fails leaves every stored
\* option value and every listener list unchanged; of the setup flags it
\* changes only that of key, which is not performed afterwards if a setup
\* is registered; and when validation is what failed no listener was
\* called.
C15_FailedSetOption ==
    [][\A k \in Keys : (CallOf("set_option", k) /\ ~cfgResult'.ok) =>
          /\ option' = option
          /\ listeners' = listeners
          /\ setup' = [setup EXCEPT
                         ![k] = IF @ = "none" THEN "none" ELSE "pending"]
          /\ cfgResult'.err \in {"ValidationError", "ListenerError",
                                 "KeyError"}
          /\ cfgResult'.err = "ValidationError" <=> ~Check(cfgVal').ok
          /\ cfgResult'.err = "ValidationError" => cfgCalls' = <<>>]_vars

\* A call failed in its second listener: the value of its key is the one
\* the listeners were told was stored before, and the setup is not performed
C15_Witness ==
    /\ cfgOp = "set_option" /\ cfgResult.err = "ListenerError"
    /\ Len(cfgCalls) = 2
    /\ option[cfgKey] = cfgCalls[1].old
    /\ option[cfgKey] # cfgCalls[1].value
    /\ setup[cfgKey] = "pending"

---------------------------------------------------------------------------
(* DatExportHandler, PyPoE/cli/exporter/dat/handler.py: the selection of  *)
(* the .dat files to export (handle) and their reading (_read_dat_files). *)
(* A file name is the sequence of its pieces, <<"A", ".dat">> for         *)
(* 'A.dat'; a path is a sequence of pieces too.                           *)

\* The keys a specification may have: every key ends in '.dat'
\* (specification/generation/import_dat_schema.py, line 61)
KeyNames == { <<"A", ".dat">>, <<"B", ".dat">>, <<"A", ".dat", ".dat">> }

\* The names a caller may ask for
AskNames == { <<"A">>, <<"A", ".dat">>, <<"B">>, <<"B", ".dat">>, <<"C">> }

\* The most names in the file list given to handle
MaxFiles == 2

\* Lists of at most n distinct keys, and lists of at most n asked names
KeyLists(n) ==
    { l \in UNION { [1..m -> KeyNames] : m \in 0..n } :
        \A i, j \in DOMAIN l : i # j => l[i] # l[j] }

AskLists(n) == UNION { [1..m -> AskNames] : m \in 0..n }

\* file_name.endswith('.dat')
EndsWithDat(n) == Len(n) > 0 /\ n[Len(n)] = ".dat"

\* file_name += '.dat'
AddDat(n) == Append(n, ".dat")

\* file_name in spec
InSpec(n, keys) == \E i \in DOMAIN keys : keys[i] = n

\* Comparison of two strings, piece by piece: '.' sorts before the letters
PieceRank(c) ==
    CASE c = ".dat" -> 1 [] c = "A" -> 2 [] c = "B" -> 3 [] OTHER -> 4

RECURSIVE NameLess(_, _)
NameLess(a, b) ==
    IF a = <<>> THEN b # <<>>
    ELSE IF b = <<>> THEN FALSE
    ELSE IF PieceRank(Head(a)) # PieceRank(Head(b))
    THEN PieceRank(Head(a)) < PieceRank(Head(b))
    ELSE NameLess(Tail(a), Tail(b))

\* files = list(files); files.sort(), lines 104-106
RECURSIVE SortNames(_)
SortNames(S) ==
    IF S = {} THEN <<>>
    ELSE LET m == CHOOSE x \in S : \A y \in S \ {x} : NameLess(x, y)
         IN  <<m>> \o SortNames(S \ {m})

\* handle, lines 94-102: what one asked name adds to the set files
Resolve(n, keys) ==
    IF InSpec(n, keys) THEN {n}
    ELSE IF ~EndsWithDat(n) /\ InSpec(AddDat(n), keys) THEN {AddDat(n)}
    ELSE {}

\* Mutant of HandleRun: the names are kept in the order asked, unsorted
\* and with their repetitions
RECURSIVE InOrderAsked(_, _)
InOrderAsked(files, keys) ==
    IF files = <<>> THEN <<>>
    ELSE LET r == Resolve(Head(files), keys) IN
         (IF r = {} THEN <<>> ELSE << CHOOSE x \in r : TRUE >>)
            \o InOrderAsked(Tail(files), keys)

HandleRun_OrderAsked(files, keys) ==
    IF files = NoFiles THEN keys ELSE InOrderAsked(files, keys)

\* DatExportHandler.handle(args), lines 88-106: the new args.files
HandleRun(files, keys) ==
    IF files = NoFiles THEN keys
    ELSE SortNames(UNION { Resolve(files[i], keys) : i \in DOMAIN files })

\* What file_system.get_file does for a path: returns the bytes, raises
\* FileNotFoundError, or raises another error
Status == {"ok", "missing", "error"}

\* The languages of a call: args.language (None when not given) and the
\* 'language' option of the config
ArgLanguages == {"None", "English", "French"}
OptLanguages == {"English", "French"}

\* args.language or config.get_option('language'), line 120
Language(argLang, optLang) == IF argLang # "None" THEN argLang ELSE optLang

\* Mutant of DirPath: the language is ignored
DirPath_AlwaysData(lang) == <<"Data/">>

\* lines 121-124: "Data/" or "Data/%s/" % lang
DirPath(lang) ==
    IF lang # "English" THEN <<"Data/", lang, "/">> ELSE <<"Data/">>

\* line 127: file_path = dir_path + name
FilePath(lang, name) == DirPath(lang) \o name

\* The files under a language directory differ from those under Data/:
\* what is there is missing here, what is missing here cannot be read, and
\* what cannot be read there is here
Shifted(st) ==
    CASE st = "ok" -> "missing" [] st = "missing" -> "error" [] OTHER -> "ok"

\* file_system.get_file(file_path), line 129, over the files the world holds
GetFileStatus(world, path) ==
    IF \E n \in DOMAIN world : path = <<"Data/">> \o n
    THEN world[CHOOSE n \in DOMAIN world : path = <<"Data/">> \o n]
    ELSE IF \E n \in DOMAIN world : path = <<"Data/", "French", "/">> \o n
    THEN Shifted(world[CHOOSE n \in DOMAIN world :
                          path = <<"Data/", "French", "/">> \o n])
    ELSE "missing"

\* lines 126-139: the loop over args.files
RECURSIVE ReadLoop(_, _, _, _, _)
ReadLoop(files, i, lang, world, acc) ==
    IF i > Len(files) THEN acc
    ELSE LET path == FilePath(lang, files[i])
             st == GetFileStatus(world, path)
             asked == [acc EXCEPT !.requests = Append(@, path)]
         IN  IF st = "missing"
             THEN ReadLoop(files, i + 1, lang, world,
                           [asked EXCEPT !.remove = Append(@, files[i])])
             ELSE IF st = "error"
             THEN [asked EXCEPT !.err = "OSError"]
             ELSE ReadLoop(files, i + 1, lang, world,
                           [asked EXCEPT !.read = Append(@, files[i])])

\* list.remove(x): the first x is taken out
RECURSIVE RemoveFirst(_, _)
RemoveFirst(l, x) ==
    IF l = <<>> THEN <<>>
    ELSE IF Head(l) = x THEN Tail(l)
    ELSE <<Head(l)>> \o RemoveFirst(Tail(l), x)

\* lines 141-142: for file_name in remove: args.files.remove(file_name)
RECURSIVE RemoveEach(_, _)
RemoveEach(l, remove) ==
    IF remove = <<>> THEN l
    ELSE RemoveEach(RemoveFirst(l, Head(remove)), Tail(remove))

\* DatExportHandler._read_dat_files(args), lines 110-144
ReadDatFilesRun(files, lang, world) ==
    LET out == ReadLoop(files, 1, lang, world,
                        [requests |-> <<>>, remove |-> <<>>, read |-> <<>>,
                         err |-> ""])
    IN  [requests |-> out.requests,
         read |-> out.read,
         files |-> IF out.err = "" THEN RemoveEach(files, out.remove)
                   ELSE files,
         result |-> IF out.err = "" THEN "returned" ELSE out.err]

\* handle runs once, on the arguments of the command line
Handle(files) ==
    /\ datOp = "none"
    /\ argsFiles' = HandleRun(files, specKeys)
    /\ datOp' = "handle"
    /\ datAsked' = files
    /\ datRequests' = <<>>
    /\ datFiles' = <<>>
    /\ datResult' = "returned"
    /\ UNCHANGED <<specKeys, argsLang, avail>>
    /\ UNCHANGED <<fsVars, worldVars, cacheVars, callVars, cfgVars>>

ReadDatFiles(argLang, optLang) ==
    LET lang == Language(argLang, optLang)
        out == ReadDatFilesRun(argsFiles, lang, avail)
    IN  /\ datOp # "none"
        /\ argsLang' = lang
        /\ datOp' = "read"
        /\ datAsked' = argsFiles
        /\ argsFiles' = out.files
        /\ datRequests' = out.requests
        /\ datFiles' = out.read
        /\ datResult' = out.result
        /\ UNCHANGED <<specKeys, avail>>
        /\ UNCHANGED <<fsVars, worldVars, cacheVars, callVars, cfgVars>>

\* A specification is loaded and the files under the content path are
\* what they are; no call has been made
DatInit ==
    /\ specKeys \in KeyLists(Cardinality(KeyNames))
    /\ avail \in [KeyNames -> Status]
    /\ argsFiles = NoFiles
    /\ argsLang = "English"
    /\ datOp = "none"
    /\ datAsked = NoFiles
    /\ datRequests = <<>>
    /\ datFiles = <<>>
    /\ datResult = "none"
    /\ FsIdle
    /\ CfgIdle

DatNext ==
    \/ \E files \in AskLists(MaxFiles) \cup {NoFiles} : Handle(files)
    \/ \E al \in ArgLanguages, ol \in OptLanguages : ReadDatFiles(al, ol)

SpecDat == DatInit /\ [][DatNext]_vars

---------------------------------------------------------------------------
(* Claims about DatExportHandler *)

Range(l) == { l[i] : i \in DOMAIN l }

\* The place of each name in ascending string order:
\* 'A' < 'A.dat' < 'A.dat.dat' < 'B' < 'B.dat' < 'C'
NameRank(n) ==
    CASE n = <<"A">> -> 1
      [] n = <<"A", ".dat">> -> 2
      [] n = <<"A", ".dat", ".dat">> -> 3
      [] n = <<"B">> -> 4
      [] n = <<"B", ".dat">> -> 5
      [] OTHER -> 6

\* C16: after handle ran with an explicit file list, args.files is sorted
\* ascending, has no duplicates, holds only keys of the specification, and
\* holds exactly the asked names that are keys together with n + '.dat'
\* for each asked name n that does not end in '.dat' and whose n + '.dat'
\* is a key; after handle ran with no file list, args.files is the list of
\* the specification's keys.
C16_HandleSelection ==
    datOp = "handle" =>
        IF datAsked = NoFiles THEN argsFiles = specKeys
        ELSE LET asked == Range(datAsked)
                 keys == Range(specKeys)
                 got == Range(argsFiles)
             IN  /\ \A i, j \in DOMAIN argsFiles :
                       i < j => NameRank(argsFiles[i]) < NameRank(argsFiles[j])
                 /\ got \subseteq keys
                 /\ got = { n \in asked : n \in keys } \cup
                          { AddDat(n) : n \in { m \in asked :
                                ~EndsWithDat(m) /\ AddDat(m) \in keys } }

\* 'B' and 'A.dat' were asked for, in that order, of a specification that
\* lists 'B.dat' first
C16_Witness ==
    /\ datOp = "handle"
    /\ datAsked = << <<"B">>, <<"A", ".dat">> >>
    /\ Len(specKeys) = 3
    /\ specKeys[1] = <<"B", ".dat">>
    /\ argsFiles = << <<"A", ".dat">>, <<"B", ".dat">> >>

\* What get_file does for a name under the directory of a language
StatusIn(lang, n) == IF lang = "English" THEN avail[n] ELSE Shifted(avail[n])

\* 'Data/' + name, or 'Data/<lang>/' + name when lang is not English
ExpectedPath(lang, n) ==
    IF lang = "English" THEN <<"Data/">> \o n ELSE <<"Data/", lang, "/">> \o n

\* C17: _read_dat_files asks get_file for each name of args.files once, in
\* order, as 'Data/' + name, or 'Data/<lang>/' + name when the language is
\* not English, up to the first name whose get_file raises an error other
\* than not-found, which ends the run with that error; it returns exactly
\* when there is no such name, and then args.files is what it was without
\* the names that were not found, in the same order, and the keys of the
\* returned dict are the names left in args.files.
C17_ReadDatFiles ==
    datOp = "read" =>
        LET before == datAsked
            errs == { i \in DOMAIN before :
                        StatusIn(argsLang, before[i]) = "error" }
            n == Len(datRequests)
            found(x) == StatusIn(argsLang, x) # "missing"
        IN  /\ n <= Len(before)
            /\ \A i \in 1..n :
                  datRequests[i] = ExpectedPath(argsLang, before[i])
            /\ datResult = "returned" <=> errs = {}
            /\ datResult = "returned" =>
                  /\ n = Len(before)
                  /\ argsFiles = SelectSeq(before, found)
                  /\ Range(datFiles) = Range(argsFiles)
                  /\ Len(datFiles) = Len(argsFiles)
            /\ datResult # "returned" =>
                  /\ datResult = "OSError"
                  /\ n \in errs
                  /\ \A i \in errs : n <= i
                  /\ argsFiles = before

\* Three names were read under Data/French/: the second was not found and
\* the first and third are left
C17_Witness ==
    /\ datOp = "read" /\ datResult = "returned"
    /\ argsLang = "French"
    /\ Len(datAsked) = 3
    /\ argsFiles = << datAsked[1], datAsked[3] >>
    /\ datFiles = argsFiles
    /\ datRequests[2] = <<"Data/", "French", "/">> \o datAsked[2]

=============================================================================
